---- MODULE Spec2Model ----
(***************************************************************************)
(* State-machine model of PaddleViT image_classification/BoTNet:           *)
(*   botnet.py  - rel_to_abs, relative_logits_1d, RelPosEmb, BoTBlock,     *)
(*                BoTStack (tensor index arithmetic and shape flow)        *)
(*   config.py  - the yacs config tree, BASE-file merging, CLI overrides   *)
(* Tensors are records [shape, data] with data in row-major order, which   *)
(* is the order paddle.reshape / paddle.concat / einops.rearrange use.     *)
(***************************************************************************)
EXTENDS Integers, Sequences, FiniteSets, TLC

\* ---------------------------------------------------------------- bounds
MaxL == 3
MaxB == 2
MaxN == 2
MaxPosB == 1    \* RelPosEmb: largest batch size
MaxHW == 2      \* RelPosEmb: largest height and width
MaxHeads == 2   \* RelPosEmb: largest head count
MaxDimHead == 2 \* RelPosEmb: largest dim_head
MaxFiles == 3   \* config files on disk
MaxFmap == 5    \* BoTStack: largest feature-map height and width tried
MaxLayers == 3  \* BoTStack: largest num_layers

VARIABLES
    rpc,        \* rel_to_abs driver: "in" before the call, "out" after it
    rx,         \* the tensor handed to rel_to_abs
    rout,       \* the tensor rel_to_abs returned
    ppc,        \* RelPosEmb driver: "new", "first", "second"
    emb,        \* the RelPosEmb layer: [height, width, rel_height, rel_width]
    pq,         \* the query handed to RelPosEmb.forward, (B, heads, h*w, d)
    pfirst,     \* forward(pq): [w, h, out]
    psecond,    \* forward(pq with its spatial axes swapped): [w, h, out]
    cpc,        \* config program: "start", "loading", "got", "update_loading",
                \* "update_apply", "done"
    files,      \* the YAML files on disk: name -> the keys the file sets
    cfile,      \* the cfg_file argument of get_config
    cfg,        \* the config tree, flattened: key -> value
    frozen,     \* the config tree's immutable flag
    frames,     \* activations of _update_config_from_file, innermost last
    args,       \* the parsed command line handed to update_config
    merged,     \* the config as it was when update_config's overrides began
    spc,        \* BoTStack.forward: "new", "running", "AssertionError",
                \* "error" (a layer rejected its input), "done"
    st,         \* the BoTStack: [dim, fmap_size, dim_out, stride, layers]
    sx,         \* the shape (B, c, h, w) of the input to BoTStack.forward
    scur,       \* the shape of the feature map between blocks
    slog,       \* per block entered: [in, shortcut, main, out] shapes
    sout        \* the shape forward returned

relVars == <<rpc, rx, rout>>
posVars == <<ppc, emb, pq, pfirst, psecond>>
cfgVars == <<cpc, files, cfile, cfg, frozen, frames, args, merged>>
stkVars == <<spc, st, sx, scur, slog, sout>>
vars == <<rpc, rx, rout, ppc, emb, pq, pfirst, psecond,
          cpc, files, cfile, cfg, frozen, frames, args, merged,
          spc, st, sx, scur, slog, sout>>

\* ------------------------------------------------------- tensor helpers
RECURSIVE Prod(_)
Prod(s) == IF Len(s) = 0 THEN 1 ELSE Head(s) * Prod(Tail(s))

\* product of the dimensions from axis a (1-based) to the end
RECURSIVE ProdFrom(_, _)
ProdFrom(s, a) == IF a > Len(s) THEN 1 ELSE s[a] * ProdFrom(s, a + 1)

\* row-major multi-index (0-based entries) of flat offset k (0-based)
Unravel(k, shape) ==
    [a \in 1..Len(shape) |-> (k \div ProdFrom(shape, a + 1)) % shape[a]]

\* row-major flat offset (0-based) of a multi-index
RECURSIVE RavelFrom(_, _, _)
RavelFrom(idx, shape, a) ==
    IF a > Len(shape) THEN 0
    ELSE idx[a] * ProdFrom(shape, a + 1) + RavelFrom(idx, shape, a + 1)
Ravel(idx, shape) == RavelFrom(idx, shape, 1)

At(t, idx) == t.data[Ravel(idx, t.shape) + 1]

\* what an operation yields when the framework rejects the shapes
BadTensor == [shape |-> <<>>, data |-> <<>>, bad |-> TRUE]

Tensor(shape, data) == [shape |-> shape, data |-> data, bad |-> FALSE]

\* paddle.zeros(shape)
zeros(shape) == Tensor(shape, [k \in 1..Prod(shape) |-> 0])

\* paddle.concat([a, b], axis): axis is 1-based here
concat(a, b, axis) ==
    IF a.bad \/ b.bad THEN BadTensor
    ELSE LET la == ProdFrom(a.shape, axis)
             lb == ProdFrom(b.shape, axis)
             outer == Prod(a.shape) \div (IF la = 0 THEN 1 ELSE la)
             shp == [a.shape EXCEPT ![axis] = a.shape[axis] + b.shape[axis]]
         IN Tensor(shp,
                [k \in 1..(outer * (la + lb)) |->
                    LET r == (k - 1) \div (la + lb)
                        c == (k - 1) % (la + lb)
                    IN IF c < la THEN a.data[r * la + c + 1]
                       ELSE b.data[r * lb + (c - la) + 1]])

\* paddle.reshape(t, shape): same data, new shape; element counts must agree
reshape(t, shape) ==
    IF t.bad \/ Prod(shape) # Len(t.data) THEN BadTensor
    ELSE Tensor(shape, t.data)

\* t[:, :, lo3:hi3, lo4:] on a rank-4 tensor (bounds 0-based, hi exclusive)
slice4(t, hi3, lo4) ==
    IF t.bad THEN BadTensor
    ELSE LET shp == <<t.shape[1], t.shape[2], hi3, t.shape[4] - lo4>>
         IN Tensor(shp,
                [k \in 1..Prod(shp) |->
                    LET i == Unravel(k - 1, shp)
                    IN At(t, <<i[1], i[2], i[3], i[4] + lo4>>)])

\* ------------------------------------------------------------ rel_to_abs
\* faulty variant: the slice keeps columns L.. instead of L-1..
rel_to_abs_slice_off_by_one(x) ==
    LET B  == x.shape[1]
        Nh == x.shape[2]
        L  == x.shape[3]
        x1       == concat(x, zeros(<<B, Nh, L, 1>>), 4)
        flat_x   == reshape(x1, <<B, Nh, L * 2 * L>>)
        flat_x2  == concat(flat_x, zeros(<<B, Nh, L - 1>>), 3)
        final_x  == reshape(flat_x2, <<B, Nh, L + 1, 2 * L - 1>>)
    IN slice4(final_x, L, L)

\* faulty variant: the zero column is put in front of each row instead of behind it
rel_to_abs_pad_front(x) ==
    LET B  == x.shape[1]
        Nh == x.shape[2]
        L  == x.shape[3]
        x1       == concat(zeros(<<B, Nh, L, 1>>), x, 4)
        flat_x   == reshape(x1, <<B, Nh, L * 2 * L>>)
        flat_x2  == concat(flat_x, zeros(<<B, Nh, L - 1>>), 3)
        final_x  == reshape(flat_x2, <<B, Nh, L + 1, 2 * L - 1>>)
    IN slice4(final_x, L, L - 1)

rel_to_abs(x) ==
    LET B  == x.shape[1]
        Nh == x.shape[2]
        L  == x.shape[3]
        col_pad  == zeros(<<B, Nh, L, 1>>)
        x1       == concat(x, col_pad, 4)
        flat_x   == reshape(x1, <<B, Nh, L * 2 * L>>)
        flat_pad == zeros(<<B, Nh, L - 1>>)
        flat_x2  == concat(flat_x, flat_pad, 3)
        final_x  == reshape(flat_x2, <<B, Nh, L + 1, 2 * L - 1>>)
    IN slice4(final_x, L, L - 1)

\* ------------------------------------------------------ rel_to_abs inputs
RelShapes == {<<b, n, l, 2 * l - 1>> : b \in 1..MaxB, n \in 1..MaxN, l \in 1..MaxL}

\* every element distinct and non-zero
Tagged(shape) == Tensor(shape, [k \in 1..Prod(shape) |-> k])
\* a single 1 at flat offset p
OneHot(shape, p) == Tensor(shape, [k \in 1..Prod(shape) |-> IF k = p THEN 1 ELSE 0])

RelInputs == {Tagged(s) : s \in RelShapes}
             \cup UNION {{OneHot(s, p) : p \in 1..Prod(s)} : s \in RelShapes}

CallRelToAbs ==
    /\ rpc = "in"
    /\ rout' = rel_to_abs(rx)
    /\ rpc' = "out"
    /\ UNCHANGED <<rx, posVars, cfgVars, stkVars>>


\* ------------------------------------------------- more tensor operations
\* t.unsqueeze(axis=dim) then paddle.expand to k along it (dim is 1-based here)
expand_dim(t, dim, k) ==
    IF t.bad THEN BadTensor
    ELSE LET n == Len(t.shape)
             shp == [a \in 1..(n + 1) |->
                        IF a < dim THEN t.shape[a]
                        ELSE IF a = dim THEN k ELSE t.shape[a - 1]]
         IN Tensor(shp,
                [p \in 1..Prod(shp) |->
                    LET i == Unravel(p - 1, shp)
                    IN At(t, [a \in 1..n |-> IF a < dim THEN i[a] ELSE i[a + 1]])])

\* einops axis permutation: output axis a is input axis perm[a]
permute(t, perm) ==
    IF t.bad THEN BadTensor
    ELSE LET n == Len(t.shape)
             shp == [a \in 1..n |-> t.shape[perm[a]]]
         IN Tensor(shp,
                [p \in 1..Prod(shp) |->
                    LET i == Unravel(p - 1, shp)
                    IN At(t, [b \in 1..n |->
                                i[CHOOSE a \in 1..n : perm[a] = b]])])

RECURSIVE SumTo(_, _)
SumTo(f, n) == IF n = 0 THEN 0 ELSE f[n] + SumTo(f, n - 1)

\* paddlenlp.ops.einsum("b n h w d, m d -> b n h w m", q, rel_k)
einsum_bnhwd_md(q, rel_k) ==
    IF q.bad \/ rel_k.bad \/ q.shape[5] # rel_k.shape[2] THEN BadTensor
    ELSE LET d == q.shape[5]
             shp == <<q.shape[1], q.shape[2], q.shape[3], q.shape[4], rel_k.shape[1]>>
         IN Tensor(shp,
                [p \in 1..Prod(shp) |->
                    LET i == Unravel(p - 1, shp)
                    IN SumTo([e \in 1..d |->
                                At(q, <<i[1], i[2], i[3], i[4], e - 1>>)
                                * At(rel_k, <<i[5], e - 1>>)], d)])

\* elementwise a + b of equally shaped tensors
add(a, b) ==
    IF a.bad \/ b.bad \/ a.shape # b.shape THEN BadTensor
    ELSE Tensor(a.shape, [p \in 1..Len(a.data) |-> a.data[p] + b.data[p]])

\* paddle.reshape with a leading -1: the first dimension is inferred
reshape_infer(t, rest) ==
    IF t.bad \/ Prod(rest) = 0 \/ Len(t.data) % Prod(rest) # 0 THEN BadTensor
    ELSE reshape(t, <<Len(t.data) \div Prod(rest)>> \o rest)

\* ----------------------------------------------------- relative_logits_1d
relative_logits_1d(q, rel_k) ==
    IF q.bad THEN BadTensor
    ELSE LET Nh == q.shape[2]
             H  == q.shape[3]
             W  == q.shape[4]
             rel_logits  == einsum_bnhwd_md(q, rel_k)
             rel_logits1 == reshape_infer(rel_logits, <<Nh * H, W, 2 * W - 1>>)
             rel_logits2 == IF rel_logits1.bad THEN BadTensor
                            ELSE rel_to_abs(rel_logits1)
             rel_logits3 == reshape_infer(rel_logits2, <<Nh, H, W, W>>)
         IN expand_dim(rel_logits3, 4, H)

\* ------------------------------------------------------ RelPosEmb.forward
\* rearrange(q, "b h (x y) d -> b h x y d", x=h, y=w)
split_xy(q, h, w) ==
    IF q.bad THEN BadTensor
    ELSE reshape(q, <<q.shape[1], q.shape[2], h, w, q.shape[4]>>)

\* rearrange(t, "b h x i y j-> b h (x y) (i j)")
merge_xy_ij(t) ==
    IF t.bad THEN BadTensor
    ELSE LET u == permute(t, <<1, 2, 3, 5, 4, 6>>)
         IN reshape(u, <<u.shape[1], u.shape[2],
                         u.shape[3] * u.shape[4], u.shape[5] * u.shape[6]>>)

\* rearrange(q, "b h x y d -> b h y x d")
swap_xy(q) == permute(q, <<1, 2, 4, 3, 5>>)

\* faulty variant: the height term is merged with the width term's pattern
merge_yx_ji_as_width(t) == merge_xy_ij(t)

\* rearrange(t, "b h x i y j -> b h (y x) (j i)")
merge_yx_ji(t) ==
    IF t.bad THEN BadTensor
    ELSE LET u == permute(t, <<1, 2, 5, 3, 6, 4>>)
         IN reshape(u, <<u.shape[1], u.shape[2],
                         u.shape[3] * u.shape[4], u.shape[5] * u.shape[6]>>)

RelPosEmb_forward(self, q0) ==
    LET h == self.height
        w == self.width
        q == split_xy(q0, h, w)
        rel_logits_w == merge_xy_ij(relative_logits_1d(q, self.rel_width))
        qT == swap_xy(q)
        rel_logits_h == merge_yx_ji(relative_logits_1d(qT, self.rel_height))
    IN [w |-> rel_logits_w, h |-> rel_logits_h, out |-> add(rel_logits_w, rel_logits_h)]

\* RelPosEmb.__init__: tables of shape (2*height-1, dim_head) and
\* (2*width-1, dim_head); the random initial values are drawn from two
\* fixed tables of distinct integers
TableValues == {"asc", "desc"}
Table(extent, dim_head, kind) ==
    LET shp == <<2 * extent - 1, dim_head>>
    IN Tensor(shp, [k \in 1..Prod(shp) |->
                      IF kind = "asc" THEN k + 1 ELSE Prod(shp) - k + 2])

RelPosEmb_init(height, width, dim_head, kh, kw) ==
    [height |-> height, width |-> width,
     rel_height |-> Table(height, dim_head, kh),
     rel_width |-> Table(width, dim_head, kw)]

\* queries whose elements are all distinct, so that every output element
\* shows which query element and which table row it was computed from
PosQueries(b, heads, h, w, d) == {Tagged(<<b, heads, h * w, d>>)}

\* the query with its two spatial axes swapped, flattened again
SwappedQuery(q, h, w) ==
    LET u == swap_xy(split_xy(q, h, w))
    IN reshape(u, <<u.shape[1], u.shape[2], u.shape[3] * u.shape[4], u.shape[5]>>)

NoResult == [w |-> BadTensor, h |-> BadTensor, out |-> BadTensor]

PosForward ==
    /\ ppc = "new"
    /\ pfirst' = RelPosEmb_forward(emb, pq)
    /\ ppc' = "first"
    /\ UNCHANGED <<emb, pq, psecond, relVars, cfgVars, stkVars>>

PosForwardSwapped ==
    /\ ppc = "first"
    /\ psecond' = RelPosEmb_forward(emb, SwappedQuery(pq, emb.height, emb.width))
    /\ ppc' = "second"
    /\ UNCHANGED <<emb, pq, pfirst, relVars, cfgVars, stkVars>>


\* ------------------------------------------------------ config.py values
\* Python values, tagged with their type
None == <<"NoneType", 0>>
PyInt(n) == <<"int", n>>
PyStr(x) == <<"str", x>>
PyBool(b) == <<"bool", b>>
PyList(l) == <<"list", l>>

\* Python truth value, as `if args.x:` tests it
Truthy(v) ==
    CASE v[1] = "NoneType" -> FALSE
      [] v[1] = "int" -> v[2] # 0
      [] v[1] = "str" -> v[2] # ""
      [] v[1] = "bool" -> v[2]
      [] v[1] = "list" -> Len(v[2]) > 0

\* the keys of _C the model follows (those update_config writes, and BASE)
Keys == {"BASE", "DATA.BATCH_SIZE", "DATA.BATCH_SIZE_EVAL", "DATA.DATA_PATH",
         "DATA.DATASET", "DATA.IMAGE_SIZE", "MODEL.RESUME", "MODEL.PRETRAINED",
         "TRAIN.LAST_EPOCH", "EVAL", "AMP", "NGPUS"}

\* _C as the module builds it
Defaults ==
    [k \in Keys |->
        CASE k = "BASE" -> PyList(<<"">>)
          [] k = "DATA.BATCH_SIZE" -> PyInt(8)
          [] k = "DATA.BATCH_SIZE_EVAL" -> PyInt(8)
          [] k = "DATA.DATA_PATH" -> PyStr("/dataset/imagenet/")
          [] k = "DATA.DATASET" -> PyStr("imagenet2012")
          [] k = "DATA.IMAGE_SIZE" -> PyInt(224)
          [] k = "MODEL.RESUME" -> None
          [] k = "MODEL.PRETRAINED" -> None
          [] k = "TRAIN.LAST_EPOCH" -> PyInt(0)
          [] k = "EVAL" -> PyBool(FALSE)
          [] k = "AMP" -> PyBool(FALSE)
          [] k = "NGPUS" -> PyInt(-1)]

\* CN() starts mutable and the module never freezes _C
DefaultFrozen == FALSE

\* ------------------------------------------------------- files on disk
FileNames == <<"a.yaml", "b.yaml", "c.yaml", "d.yaml", "e.yaml">>
FileSet == {FileNames[i] : i \in 1..MaxFiles}
LastFile == FileNames[MaxFiles]

\* a file is the mapping of the keys it sets (BASE among them, when present)
KeySettings ==
    { <<>>,
      [k \in {"DATA.BATCH_SIZE"} |-> PyInt(16)],
      [k \in {"DATA.BATCH_SIZE", "AMP"} |->
          IF k = "AMP" THEN PyBool(TRUE) ELSE PyInt(32)] }

\* BASE lists name files that come earlier, so that loading terminates
BaseLists(i) ==
    LET earlier == {FileNames[j] : j \in 1..(i - 1)}
    IN {<<"">>} \cup {<<a>> : a \in earlier}
       \cup {p \in earlier \X earlier : p[1] # p[2]}

WithBase(settings, base) ==
    [k \in DOMAIN settings \cup {"BASE"} |->
        IF k = "BASE" THEN PyList(base) ELSE settings[k]]

FileContents(i) ==
    (IF i = 1 THEN KeySettings ELSE {})
    \cup {WithBase(x, b) : x \in KeySettings, b \in BaseLists(i)}

RECURSIVE FileSystemsUpTo(_)
FileSystemsUpTo(n) ==
    IF n = 0 THEN {<<>>}
    ELSE {Append(fs, c) : fs \in FileSystemsUpTo(n - 1), c \in FileContents(n)}

FileSystems == FileSystemsUpTo(MaxFiles)

\* the files update_config is run against: a parent and a child that names it
CliFileSystems ==
    { [i \in 1..MaxFiles |->
          IF i = 1 THEN parent
          ELSE WithBase([k \in {"DATA.BATCH_SIZE"} |-> PyInt(32)], <<FileNames[1]>>)] :
      parent \in { [k \in {"AMP"} |-> PyBool(TRUE)],
                   [k \in {"EVAL", "TRAIN.LAST_EPOCH"} |->
                       IF k = "EVAL" THEN PyBool(TRUE) ELSE PyInt(5)],
                   [k \in {"DATA.BATCH_SIZE"} |-> PyInt(16)] } }

FileIndex(name) == CHOOSE i \in 1..MaxFiles : FileNames[i] = name
Yaml(name) == files[FileIndex(name)]

\* yaml_cfg.setdefault('BASE', [''])
BaseOf(name) ==
    IF "BASE" \in DOMAIN Yaml(name) THEN Yaml(name)["BASE"][2] ELSE <<"">>

\* config.merge_from_file(cfg_file): every key of the file replaces the tree's
merge_from_file(c, name) ==
    [k \in Keys |-> IF k \in DOMAIN Yaml(name) THEN Yaml(name)[k] ELSE c[k]]

\* -------------------------------------------- _update_config_from_file
\* faulty variant: the file is merged before its BASE parents are loaded
update_steps_merge_first == <<"defrost", "merge", "bases", "freeze">>

\* the order of the function's statements
update_steps == <<"defrost", "bases", "merge", "freeze">>

Frame(name) == [file |-> name, step |-> 1, i |-> 1]
Top == frames[Len(frames)]
AtStep(x) == Len(frames) > 0 /\ update_steps[Top.step] = x
Advance == [frames EXCEPT ![Len(frames)].step = @ + 1]

\* where the program continues when the outermost activation returns
AfterLoad == IF cpc = "loading" THEN "got" ELSE "update_apply"

\* config.defrost(), then the file is read
FileDefrost ==
    /\ AtStep("defrost")
    /\ frozen' = FALSE
    /\ frames' = Advance
    /\ UNCHANGED <<cpc, files, cfile, cfg, args, merged, relVars, posVars, stkVars>>

\* one turn of `for cfg in yaml_cfg.setdefault('BASE', [''])`
FileNextBase ==
    /\ AtStep("bases")
    /\ LET base == BaseOf(Top.file)
       IN IF Top.i > Len(base)
          THEN frames' = Advance
          ELSE LET stepped == [frames EXCEPT ![Len(frames)].i = @ + 1]
               IN IF base[Top.i] # ""
                  THEN frames' = Append(stepped, Frame(base[Top.i]))
                  ELSE frames' = stepped
    /\ UNCHANGED <<cpc, files, cfile, cfg, frozen, args, merged, relVars, posVars, stkVars>>

\* config.merge_from_file(cfg_file): yacs merges whether or not the tree is frozen
FileMerge ==
    /\ AtStep("merge")
    /\ cfg' = merge_from_file(cfg, Top.file)
    /\ frames' = Advance
    /\ UNCHANGED <<cpc, files, cfile, frozen, args, merged, relVars, posVars, stkVars>>

\* config.freeze(), then the activation returns
FileFreeze ==
    /\ AtStep("freeze")
    /\ frozen' = TRUE
    /\ frames' = SubSeq(frames, 1, Len(frames) - 1)
    /\ cpc' = IF Len(frames) = 1 THEN AfterLoad ELSE cpc
    /\ UNCHANGED <<files, cfile, cfg, args, merged, relVars, posVars, stkVars>>

\* ------------------------------------------------------------ get_config
GetConfig ==
    /\ cpc = "start"
    /\ \E f \in {None, PyStr(LastFile)} :
          /\ cfile' = f
          /\ cfg' = Defaults
          /\ frozen' = DefaultFrozen
          /\ IF Truthy(f)
             THEN frames' = <<Frame(f[2])>> /\ cpc' = "loading"
             ELSE frames' = <<>> /\ cpc' = "got"
    /\ UNCHANGED <<files, args, merged, relVars, posVars, stkVars>>

\* --------------------------------------------------------- update_config
ArgNames == {"cfg", "dataset", "batch_size", "image_size", "data_path", "ngpus",
             "eval", "pretrained", "resume", "last_epoch", "amp"}

\* what the parser can hand over for each option; None when it is not given
ArgValues(a) ==
    CASE a = "cfg" -> {None} \cup {PyStr(f) : f \in FileSet}
      [] a = "dataset" -> {None, PyStr("cifar10")}
      [] a = "batch_size" -> {None, PyInt(64)}
      [] a = "image_size" -> {None, PyInt(384)}
      [] a = "data_path" -> {None, PyStr("/data")}
      [] a = "ngpus" -> {None, PyInt(2)}
      [] a = "eval" -> {PyBool(FALSE), PyBool(TRUE)}
      [] a = "pretrained" -> {None, PyStr("w.pdparams")}
      [] a = "resume" -> {None, PyStr("ckpt")}
      [] a = "last_epoch" -> {None, PyInt(0), PyInt(7)}
      [] a = "amp" -> {PyBool(FALSE), PyBool(TRUE)}

NoArgs == [a \in ArgNames |-> None]

\* `if args.<a>: config.<k> = args.<a>`
SetIf(c, a, k) == IF Truthy(args[a]) THEN [c EXCEPT ![k] = args[a]] ELSE c

\* lines 124-148: the overrides, in the order the code applies them
ApplyArgs(c0) ==
    LET c1 == SetIf(c0, "dataset", "DATA.DATASET")
        c2 == SetIf(c1, "batch_size", "DATA.BATCH_SIZE")
        c3 == SetIf(c2, "image_size", "DATA.IMAGE_SIZE")
        c4 == SetIf(c3, "data_path", "DATA.DATA_PATH")
        c5 == SetIf(c4, "ngpus", "NGPUS")
        c6 == IF Truthy(args["eval"])
              THEN [c5 EXCEPT !["EVAL"] = PyBool(TRUE),
                              !["DATA.BATCH_SIZE_EVAL"] = args["batch_size"]]
              ELSE c5
        c7 == SetIf(c6, "pretrained", "MODEL.PRETRAINED")
        c8 == SetIf(c7, "resume", "MODEL.RESUME")
        c9 == SetIf(c8, "last_epoch", "TRAIN.LAST_EPOCH")
    IN IF Truthy(args["amp"])
       THEN IF c9["EVAL"] = PyBool(TRUE)
            THEN [c9 EXCEPT !["AMP"] = PyBool(FALSE)]
            ELSE [c9 EXCEPT !["AMP"] = PyBool(TRUE)]
       ELSE c9

\* update_config is entered: `if args.cfg: _update_config_from_file(...)`
UpdateConfigBegin ==
    /\ cpc = "got"
    /\ \E a1 \in ArgValues("cfg"), a2 \in ArgValues("dataset"),
          a3 \in ArgValues("batch_size"), a4 \in ArgValues("image_size"),
          a5 \in ArgValues("data_path"), a6 \in ArgValues("ngpus"),
          a7 \in ArgValues("eval"), a8 \in ArgValues("pretrained"),
          a9 \in ArgValues("resume"), a10 \in ArgValues("last_epoch"),
          a11 \in ArgValues("amp") :
            args' = [cfg |-> a1, dataset |-> a2, batch_size |-> a3,
                     image_size |-> a4, data_path |-> a5, ngpus |-> a6,
                     eval |-> a7, pretrained |-> a8, resume |-> a9,
                     last_epoch |-> a10, amp |-> a11]
    /\ IF Truthy(args'["cfg"])
       THEN frames' = <<Frame(args'["cfg"][2])>> /\ cpc' = "update_loading"
       ELSE frames' = frames /\ cpc' = "update_apply"
    /\ UNCHANGED <<files, cfile, cfg, frozen, merged, relVars, posVars, stkVars>>

\* config.defrost(), the overrides, return config (config.freeze() is commented out)
UpdateConfigApply ==
    /\ cpc = "update_apply"
    /\ merged' = cfg
    /\ frozen' = FALSE
    /\ cfg' = ApplyArgs(cfg)
    /\ cpc' = "done"
    /\ UNCHANGED <<files, cfile, frames, args, relVars, posVars, stkVars>>

\* ------------------------------------------------ layer shape functions
\* the defaults of BoTStack.__init__
Heads == 4
ProjFactor == 4
DimQK == 128
DimV == 128

\* what a layer yields when it rejects the shape of its input
NoShape == <<>>

\* nn.Conv2D(cin, cout, kernel_size=1, stride=stride), no padding
Conv2D(x, cin, cout, stride) ==
    IF x = NoShape \/ x[2] # cin THEN NoShape
    ELSE <<x[1], cout, (x[3] - 1) \div stride + 1, (x[4] - 1) \div stride + 1>>

\* nn.BatchNorm2D(c)
BatchNorm2D(x, c) == IF x = NoShape \/ x[2] # c THEN NoShape ELSE x

\* nn.AvgPool2D(k): stride k, no padding, floor mode
AvgPool2D(x, k) ==
    IF x = NoShape THEN NoShape
    ELSE LET h == (x[3] - k) \div k + 1
             w == (x[4] - k) \div k + 1
         IN IF h < 1 \/ w < 1 THEN NoShape ELSE <<x[1], x[2], h, w>>

\* MHSA.__init__
MHSA_init(dim, fmap_size) ==
    [dim |-> dim, height |-> fmap_size[1], width |-> fmap_size[2]]

\* MHSA.forward: the projections need `dim` channels; RelPosEmb splits the
\* H*W query positions into (height, width)
MHSA_forward(self, x) ==
    IF x = NoShape \/ x[2] # self.dim THEN NoShape
    ELSE IF x[3] * x[4] # self.height * self.width THEN NoShape
    ELSE <<x[1], Heads * DimV, x[3], x[4]>>

\* BoTBlock.__init__
BoTBlock_init(dim, fmap_size, dim_out, stride) ==
    [dim |-> dim, dim_out |-> dim_out, stride |-> stride, fmap_size |-> fmap_size,
     projection |-> (dim # dim_out \/ stride # 1),
     bottleneck_dimension |-> dim_out \div ProjFactor,
     attn_dim_out |-> Heads * DimV,
     mhsa |-> MHSA_init(dim_out \div ProjFactor, fmap_size)]

\* self.shortcut(featuremap)
BoTBlock_shortcut(self, x) ==
    IF self.projection
    THEN BatchNorm2D(Conv2D(x, self.dim, self.dim_out, self.stride), self.dim_out)
    ELSE x

\* self.net(featuremap)
BoTBlock_net(self, x) ==
    LET a == BatchNorm2D(Conv2D(x, self.dim, self.bottleneck_dimension, 1),
                         self.bottleneck_dimension)
        b == MHSA_forward(self.mhsa, a)
        c == IF self.stride = 2 THEN AvgPool2D(b, 2) ELSE b
        d == BatchNorm2D(c, self.attn_dim_out)
    IN BatchNorm2D(Conv2D(d, self.attn_dim_out, self.dim_out, 1), self.dim_out)

Max(a, b) == IF a > b THEN a ELSE b
Broadcastable(m, s) == \A a \in 1..4 : m[a] = s[a] \/ m[a] = 1 \/ s[a] = 1

\* `featuremap += shortcut`: equal shapes add; unequal ones are rejected, or,
\* where the framework evaluates += as a broadcasting +, broadcast
Residual(main, short) ==
    IF main = NoShape \/ short = NoShape THEN {NoShape}
    ELSE IF main = short THEN {main}
    ELSE {NoShape} \cup
         (IF Broadcastable(main, short)
          THEN {[a \in 1..4 |-> Max(main[a], short[a])]} ELSE {})

\* BoTStack.__init__
BoTStack_init(dim, fmap_size, dim_out, num_layers, stride) ==
    [dim |-> dim, fmap_size |-> fmap_size, dim_out |-> dim_out, stride |-> stride,
     layers |-> [i \in 1..num_layers |->
        LET is_first == (i = 1)
            fmap_divisor == IF stride = 2 /\ ~is_first THEN 2 ELSE 1
            layer_fmap_size == <<fmap_size[1] \div fmap_divisor,
                                 fmap_size[2] \div fmap_divisor>>
        IN BoTBlock_init(IF is_first THEN dim ELSE dim_out, layer_fmap_size,
                         dim_out, IF is_first THEN stride ELSE 1)]]

\* RelPosEmb.__init__ needs tables of 2*extent-1 >= 1 rows
Constructible(s) ==
    \A i \in 1..Len(s.layers) :
        s.layers[i].fmap_size[1] >= 1 /\ s.layers[i].fmap_size[2] >= 1

Channels == {1024, 2048}
\* 14 is the feature map botnet50 uses; extent 1 is left out because whether
\* AvgPool2D(2) accepts a one-pixel side depends on the framework build
FmapExtents == (2..MaxFmap) \cup {14}
Strides == {1, 2}
Batches == {1, 2}

Stacks ==
    {s \in {BoTStack_init(dim, <<H, W>>, dim_out, n, stride) :
               dim \in Channels, dim_out \in Channels, H \in FmapExtents,
               W \in FmapExtents, n \in 1..MaxLayers, stride \in Strides} :
        Constructible(s)}

\* inputs: the declared shape, and shapes off by one in channels, height, width
Near(n) == {m \in {n - 1, n, n + 1} : m >= 1}
StackInputs(s) ==
    {<<b, c, h, w>> : b \in Batches, c \in Channels,
                      h \in Near(s.fmap_size[1]), w \in Near(s.fmap_size[2])}

\* faulty variant: the width is not compared
forward_asserts_no_width(self, x) ==
    x[2] = self.dim /\ x[3] = self.fmap_size[1]

\* the two assert statements of BoTStack.forward
forward_asserts(self, x) ==
    /\ x[2] = self.dim
    /\ x[3] = self.fmap_size[1] /\ x[4] = self.fmap_size[2]

\* BoTStack.forward up to `return self.net(x)`
StackAssert ==
    /\ spc = "new"
    /\ IF forward_asserts(st, sx)
       THEN spc' = "running" /\ scur' = sx
       ELSE spc' = "AssertionError" /\ scur' = scur
    /\ UNCHANGED <<st, sx, slog, sout, relVars, posVars, cfgVars>>

\* nn.Sequential runs the next BoTBlock.forward
StackRunBlock ==
    /\ spc = "running"
    /\ Len(slog) < Len(st.layers)
    /\ LET blk == st.layers[Len(slog) + 1]
           shortcut == BoTBlock_shortcut(blk, scur)
           main == BoTBlock_net(blk, scur)
       IN \E out \in Residual(main, shortcut) :
            /\ slog' = Append(slog, [in |-> scur, shortcut |-> shortcut,
                                     main |-> main, out |-> out])
            /\ scur' = out
            /\ spc' = IF out = NoShape THEN "error" ELSE "running"
    /\ UNCHANGED <<st, sx, sout, relVars, posVars, cfgVars>>

\* the last block has run: forward returns
StackReturn ==
    /\ spc = "running"
    /\ Len(slog) = Len(st.layers)
    /\ sout' = scur
    /\ spc' = "done"
    /\ UNCHANGED <<st, sx, scur, slog, relVars, posVars, cfgVars>>

\* --------------------------------------------------------- specifications
\* rel_to_abs applied to one tensor
InitRel ==
    /\ rpc = "in"
    /\ rx \in RelInputs
    /\ rout = BadTensor
    /\ ppc = "off" /\ emb = RelPosEmb_init(1, 1, 1, "asc", "asc")
    /\ pq = BadTensor /\ pfirst = NoResult /\ psecond = NoResult
    /\ cpc = "off" /\ files = <<>> /\ cfile = None /\ cfg = Defaults /\ frozen = DefaultFrozen
    /\ frames = <<>> /\ args = NoArgs /\ merged = Defaults
    /\ spc = "off" /\ st = BoTStack_init(1024, <<1, 1>>, 2048, 1, 1)
    /\ sx = NoShape /\ scur = NoShape /\ slog = <<>> /\ sout = NoShape
NextRel == CallRelToAbs
SpecRel == InitRel /\ [][NextRel]_vars

\* a RelPosEmb layer run on a query and on the query with its axes swapped
InitPos ==
    /\ ppc = "new"
    /\ \E h \in 1..MaxHW, w \in 1..MaxHW, d \in 1..MaxDimHead,
          kh \in TableValues, kw \in TableValues :
            /\ emb = RelPosEmb_init(h, w, d, kh, kw)
            /\ \E b \in 1..MaxPosB, n \in 1..MaxHeads : pq \in PosQueries(b, n, h, w, d)
    /\ pfirst = NoResult
    /\ psecond = NoResult
    /\ rpc = "off" /\ rx = BadTensor /\ rout = BadTensor
    /\ cpc = "off" /\ files = <<>> /\ cfile = None /\ cfg = Defaults /\ frozen = DefaultFrozen
    /\ frames = <<>> /\ args = NoArgs /\ merged = Defaults
    /\ spc = "off" /\ st = BoTStack_init(1024, <<1, 1>>, 2048, 1, 1)
    /\ sx = NoShape /\ scur = NoShape /\ slog = <<>> /\ sout = NoShape
NextPos == PosForward \/ PosForwardSwapped
SpecPos == InitPos /\ [][NextPos]_vars

\* get_config over every tree of BASE files
InitFile ==
    /\ cpc = "start"
    /\ files \in FileSystems
    /\ cfile = None /\ cfg = Defaults /\ frozen = DefaultFrozen
    /\ frames = <<>> /\ args = NoArgs /\ merged = Defaults
    /\ rpc = "off" /\ rx = BadTensor /\ rout = BadTensor
    /\ ppc = "off" /\ emb = RelPosEmb_init(1, 1, 1, "asc", "asc")
    /\ pq = BadTensor /\ pfirst = NoResult /\ psecond = NoResult
    /\ spc = "off" /\ st = BoTStack_init(1024, <<1, 1>>, 2048, 1, 1)
    /\ sx = NoShape /\ scur = NoShape /\ slog = <<>> /\ sout = NoShape
NextFile == GetConfig \/ FileDefrost \/ FileNextBase \/ FileMerge \/ FileFreeze
SpecFile == InitFile /\ [][NextFile]_vars

\* get_config followed by update_config with every command line
InitCli ==
    /\ cpc = "start"
    /\ files \in CliFileSystems
    /\ cfile = None /\ cfg = Defaults /\ frozen = DefaultFrozen
    /\ frames = <<>> /\ args = NoArgs /\ merged = Defaults
    /\ rpc = "off" /\ rx = BadTensor /\ rout = BadTensor
    /\ ppc = "off" /\ emb = RelPosEmb_init(1, 1, 1, "asc", "asc")
    /\ pq = BadTensor /\ pfirst = NoResult /\ psecond = NoResult
    /\ spc = "off" /\ st = BoTStack_init(1024, <<1, 1>>, 2048, 1, 1)
    /\ sx = NoShape /\ scur = NoShape /\ slog = <<>> /\ sout = NoShape
NextCli == \/ GetConfig \/ FileDefrost \/ FileNextBase \/ FileMerge \/ FileFreeze
           \/ UpdateConfigBegin \/ UpdateConfigApply
SpecCli == InitCli /\ [][NextCli]_vars

\* a BoTStack run on one input
InitStack ==
    /\ spc = "new"
    /\ st \in Stacks
    /\ sx \in StackInputs(st)
    /\ scur = NoShape /\ slog = <<>> /\ sout = NoShape
    /\ rpc = "off" /\ rx = BadTensor /\ rout = BadTensor
    /\ ppc = "off" /\ emb = RelPosEmb_init(1, 1, 1, "asc", "asc")
    /\ pq = BadTensor /\ pfirst = NoResult /\ psecond = NoResult
    /\ cpc = "off" /\ files = <<>> /\ cfile = None /\ cfg = Defaults /\ frozen = DefaultFrozen
    /\ frames = <<>> /\ args = NoArgs /\ merged = Defaults
NextStack == StackAssert \/ StackRunBlock \/ StackReturn
SpecStack == InitStack /\ [][NextStack]_vars

\* ---------------------------------------------- properties of rel_to_abs
RelB == rx.shape[1]
RelN == rx.shape[2]
RelL == rx.shape[3]

IsTagged(t) == \A k \in 1..Len(t.data) : t.data[k] = k
Ones(t) == {k \in 1..Len(t.data) : t.data[k] = 1}
IsOneHot(t) == /\ Cardinality(Ones(t)) = 1
               /\ \A k \in 1..Len(t.data) : t.data[k] \in {0, 1}
\* the multi-index of the single 1 of a one-hot tensor
HotIndex(t) == Unravel((CHOOSE k \in Ones(t) : TRUE) - 1, t.shape)

\* C1: rel_to_abs maps (B, N, L, 2L-1) to (B, N, L, L) with
\* out[b,n,i,k] = x[b,n,i,(k-i)+(L-1)]; no reshape is rejected for a wrong
\* element count, and no output element is an appended zero.
C1_RelToAbsGather ==
    rpc = "out" =>
        /\ ~rout.bad
        /\ rout.shape = <<RelB, RelN, RelL, RelL>>
        /\ Len(rout.data) = RelB * RelN * RelL * RelL
        /\ \A b \in 0..(RelB - 1), n \in 0..(RelN - 1),
              i \in 0..(RelL - 1), k \in 0..(RelL - 1) :
                At(rout, <<b, n, i, k>>) = At(rx, <<b, n, i, (k - i) + (RelL - 1)>>)
        /\ (IsTagged(rx) => \A k \in 1..Len(rout.data) : rout.data[k] # 0)

C1_Witness ==
    /\ rpc = "out"
    /\ rx = Tagged(<<2, 2, 3, 5>>)
    /\ At(rout, <<1, 1, 2, 0>>) = At(rx, <<1, 1, 2, 0>>)
    /\ At(rout, <<1, 0, 0, 2>>) = At(rx, <<1, 0, 0, 4>>)

\* C2 as stated: a one-hot input with its 1 at (b,n,i,j), where
\* expected = i + L - 1 - j lies in 0..L-1, yields 1 at (b,n,i,expected)
\* and 0 elsewhere.
C2_OneHotAsStated ==
    (rpc = "out" /\ IsOneHot(rx)) =>
        LET h == HotIndex(rx)
            expected == h[3] + RelL - 1 - h[4]
        IN expected \in 0..(RelL - 1) =>
              rout = OneHot(<<RelB, RelN, RelL, RelL>>,
                            Ravel(<<h[1], h[2], h[3], expected>>,
                                  <<RelB, RelN, RelL, RelL>>) + 1)

\* C2 amended: with expected = i + j - (L - 1) in 0..L-1 the output is
\* one-hot at (b,n,i,expected).
C2_OneHotAmended ==
    (rpc = "out" /\ IsOneHot(rx)) =>
        LET h == HotIndex(rx)
            expected == h[3] + h[4] - (RelL - 1)
        IN expected \in 0..(RelL - 1) =>
              rout = OneHot(<<RelB, RelN, RelL, RelL>>,
                            Ravel(<<h[1], h[2], h[3], expected>>,
                                  <<RelB, RelN, RelL, RelL>>) + 1)

C2_Witness ==
    /\ rpc = "out"
    /\ rx = OneHot(<<2, 1, 3, 5>>, Ravel(<<1, 0, 1, 3>>, <<2, 1, 3, 5>>) + 1)
    /\ At(rout, <<1, 0, 1, 2>>) = 1

\* ------------------------------------------- properties of RelPosEmb.forward
PosB == pq.shape[1]
PosHeads == pq.shape[2]

\* C9: with height = width and rel_height = rel_width the height term of q is
\* the transpose of the width term of q with its spatial axes swapped:
\* rel_logits_h(q)[b,n,(x,y),(i,j)] = rel_logits_w(q')[b,n,(y,x),(j,i)];
\* the width term depends only on (x,y,j), the height term only on (x,y,i).
C9_HeightWidthTranspose ==
    LET h == emb.height
        w == emb.width
    IN /\ (ppc = "second" /\ h = w /\ emb.rel_height = emb.rel_width) =>
            /\ ~pfirst.h.bad /\ ~psecond.w.bad
            /\ \A b \in 0..(PosB - 1), n \in 0..(PosHeads - 1),
                  x \in 0..(h - 1), y \in 0..(w - 1),
                  i \in 0..(h - 1), j \in 0..(w - 1) :
                    At(pfirst.h, <<b, n, x * w + y, i * w + j>>)
                    = At(psecond.w, <<b, n, y * w + x, j * w + i>>)
       /\ ppc \in {"first", "second"} =>
            /\ pfirst.w.shape = <<PosB, PosHeads, h * w, h * w>>
            /\ pfirst.h.shape = <<PosB, PosHeads, h * w, h * w>>
            /\ \A b \in 0..(PosB - 1), n \in 0..(PosHeads - 1),
                  x \in 0..(h - 1), y \in 0..(w - 1),
                  i \in 0..(h - 1), j \in 0..(w - 1) :
                    /\ \A i2 \in 0..(h - 1) :
                          At(pfirst.w, <<b, n, x * w + y, i * w + j>>)
                          = At(pfirst.w, <<b, n, x * w + y, i2 * w + j>>)
                    /\ \A j2 \in 0..(w - 1) :
                          At(pfirst.h, <<b, n, x * w + y, i * w + j>>)
                          = At(pfirst.h, <<b, n, x * w + y, i * w + j2>>)

C9_Witness ==
    /\ ppc = "second"
    /\ emb.height = 2 /\ emb.width = 2
    /\ emb.rel_height = emb.rel_width
    /\ pq.shape = <<1, 2, 4, 2>>
    /\ pfirst.h # pfirst.w
    /\ At(pfirst.h, <<0, 1, 1, 2>>) = At(psecond.w, <<0, 1, 2, 1>>)
    /\ At(pfirst.h, <<0, 1, 1, 2>>) # At(pfirst.h, <<0, 1, 1, 0>>)

\* ----------------------------------------------- properties of config.py
\* what loading a file must give: its BASE parents resolved depth-first in list
\* order on top of c, then the file's own keys
RECURSIVE Resolved(_, _), ResolvedBases(_, _, _)
ResolvedBases(c, base, i) ==
    IF i > Len(base) THEN c
    ELSE ResolvedBases(IF base[i] = "" THEN c ELSE Resolved(c, base[i]), base, i + 1)
Resolved(c, name) ==
    LET parents == ResolvedBases(c, BaseOf(name), 1)
        own == Yaml(name)
    IN [k \in Keys |-> IF k \in DOMAIN own THEN own[k] ELSE parents[k]]

\* C3: after get_config(f) every key has the value f sets, else the value the
\* BASE files of f give (recursively, depth-first, in list order, each parent
\* fully merged before f's keys), else the default.
C3_ChildOverridesParents ==
    (cpc = "got" /\ Truthy(cfile)) =>
        LET f == cfile[2]
            parents == ResolvedBases(Defaults, BaseOf(f), 1)
        IN /\ cfg = Resolved(Defaults, f)
           /\ \A k \in Keys :
                /\ k \in DOMAIN Yaml(f) => cfg[k] = Yaml(f)[k]
                /\ k \notin DOMAIN Yaml(f) => cfg[k] = parents[k]

C3_Witness ==
    /\ cpc = "got" /\ cfile = PyStr(LastFile)
    /\ BaseOf(LastFile) = <<FileNames[1], FileNames[2]>>
    /\ "DATA.BATCH_SIZE" \in DOMAIN Yaml(FileNames[2])
    /\ Yaml(FileNames[2])["DATA.BATCH_SIZE"] = PyInt(16)
    /\ "AMP" \in DOMAIN Yaml(FileNames[1])
    /\ "DATA.BATCH_SIZE" \in DOMAIN Yaml(LastFile)
    /\ Yaml(LastFile)["DATA.BATCH_SIZE"] = PyInt(32)
    /\ cfg["DATA.BATCH_SIZE"] = PyInt(32)

\* C4: after update_config returns, EVAL = True implies AMP = False, whatever
\* the command line and the config files set.
C4_EvalForcesAmpOff ==
    cpc = "done" => (cfg["EVAL"] = PyBool(TRUE) => cfg["AMP"] = PyBool(FALSE))

\* C5: the tree is frozen whenever get_config or update_config has returned, and
\* a file is merged only while the tree is defrosted.
C5_FrozenOutsideOverrides ==
    /\ cpc \in {"got", "done"} => frozen
    /\ AtStep("merge") => ~frozen

\* C6: for each of the eight value options the field equals the CLI value when
\* the option is given and otherwise the value it had after file merging; no
\* field is assigned the value of an option that was not given.
CliFields ==
    {<<"dataset", "DATA.DATASET">>, <<"batch_size", "DATA.BATCH_SIZE">>,
     <<"image_size", "DATA.IMAGE_SIZE">>, <<"data_path", "DATA.DATA_PATH">>,
     <<"ngpus", "NGPUS">>, <<"pretrained", "MODEL.PRETRAINED">>,
     <<"resume", "MODEL.RESUME">>, <<"last_epoch", "TRAIN.LAST_EPOCH">>}

C6_CliPrecedence ==
    cpc = "done" =>
        /\ \A p \in CliFields :
              IF args[p[1]] # None THEN cfg[p[2]] = args[p[1]]
              ELSE cfg[p[2]] = merged[p[2]]
        /\ \A k \in Keys : cfg[k] # merged[k] => cfg[k] # None

\* -------------------------------------------- properties of BoTStack/BoTBlock
StackB == sx[1]
Declared == <<StackB, st.dim, st.fmap_size[1], st.fmap_size[2]>>
Downsampled == <<StackB, st.dim_out, st.fmap_size[1] \div st.stride,
                 st.fmap_size[2] \div st.stride>>

\* C7: an input whose channel count, height or width differs from the declared
\* ones ends forward with an assertion error before any block runs and without
\* an output; blocks run only when all three match.
C7_AssertBeforeBlocks ==
    /\ (spc \notin {"new", "off"} /\ sx # Declared) =>
          spc = "AssertionError" /\ slog = <<>> /\ sout = NoShape /\ scur = NoShape
    /\ (slog # <<>> \/ spc \in {"running", "done", "error"}) => sx = Declared

C7_Witness ==
    /\ spc = "AssertionError"
    /\ sx[2] = st.dim /\ sx[3] = st.fmap_size[1] /\ sx[4] = st.fmap_size[2] + 1
    /\ slog = <<>>

\* C8: on a declared-shape input every stack returns (B, dim_out, H/stride,
\* W/stride); the first block alone changes channels and size, each later block
\* receives and returns that shape and its attention is built for that size.
C8_StackShapes ==
    (spc \in {"done", "error"} /\ sx = Declared) =>
        /\ spc = "done"
        /\ sout = Downsampled
        /\ \A i \in 1..Len(slog) :
              /\ slog[i].in = (IF i = 1 THEN Declared ELSE Downsampled)
              /\ slog[i].out = Downsampled
              /\ i > 1 => st.layers[i].fmap_size = <<Downsampled[3], Downsampled[4]>>

\* C10: in every block whose input has the block's fmap_size the shortcut
\* output and the main-path output have the same shape.
C10_ResidualShapesAgree ==
    \A i \in 1..Len(slog) :
        (slog[i].in # NoShape
         /\ <<slog[i].in[3], slog[i].in[4]>> = st.layers[i].fmap_size
         /\ slog[i].in[2] = st.layers[i].dim) =>
            /\ slog[i].main # NoShape
            /\ slog[i].shortcut = slog[i].main

====
